---- MODULE Spec2Model ----
(***************************************************************************)
(* Model of src/main.py, the "Advanced PDF Analysis API": the pure helpers *)
(* (format_pdf_date, extract_metadata, parse_pdf_low_level,                *)
(* structure_extract_in_json) as operators, and the request handler        *)
(* analyze_pdf as a state machine over its statements.                     *)
(*                                                                         *)
(* Python strings are sequences of one-character strings, so that          *)
(* slicing, concatenation, lower() and substring search are computed.      *)
(***************************************************************************)
EXTENDS Integers, Sequences, FiniteSets, TLC

VARIABLES
    call,          \* pure-function harness: the function applied and its argument
    ret,           \* pure-function harness: the outcome of the call
    batch,         \* request -> the uploaded files of the request (files, line 297)
    pc,            \* request -> position of the handler coroutine
    idx,           \* request -> index of the file the for loop (line 299) is at
    running,       \* the coroutine that holds the event loop, or Idle
    frame,         \* request -> the local variables of the current iteration
    final_result,  \* request -> final_result (line 298)
    exc,           \* request -> the exception caught at line 381, or NoExc
    failed,        \* request -> indices of the files whose handling failed
    temp_pdf,      \* the file "temp.pdf" of the working directory, or NoFile
    artifacts,     \* the overlay files written by doc.save (line 180)
    handles        \* document handles opened and not closed

harness_vars == <<call, ret>>
pipeline_vars == <<batch, pc, idx, running, frame, final_result, exc, failed,
                   temp_pdf, artifacts, handles>>
vars == <<call, ret, batch, pc, idx, running, frame, final_result, exc, failed,
          temp_pdf, artifacts, handles>>

-----------------------------------------------------------------------------
(* Python values *)

\* None where a str is expected (dict.get of an absent key, line 316)
PyNone == <<"None">>
\* None where a dict is expected (fitz metadata of a document that was not initialised)
PyNoneDict == [py_none |-> TRUE]

\* dict.get(key, default)
DictGet(d, key, default) == IF key \in DOMAIN d THEN d[key] ELSE default

Min(a, b) == IF a < b THEN a ELSE b

\* s[:n]
Take(s, n) == SubSeq(s, 1, Min(n, Len(s)))
\* s[n:]
Drop(s, n) == SubSeq(s, n + 1, Len(s))

\* s.startswith(p)
StartsWith(s, p) == Len(s) >= Len(p) /\ SubSeq(s, 1, Len(p)) = p

\* s.endswith(p)
EndsWith(s, p) == Len(s) >= Len(p) /\ SubSeq(s, Len(s) - Len(p) + 1, Len(s)) = p

\* needle in hay
Contains(hay, needle) ==
    \E i \in 1..(Len(hay) - Len(needle) + 1) :
        SubSeq(hay, i, i + Len(needle) - 1) = needle

UpperChars == <<"A", "B", "C", "D", "E", "F", "G", "H", "I", "J", "K", "L", "M",
                "N", "O", "P", "Q", "R", "S", "T", "U", "V", "W", "X", "Y", "Z">>
LowerChars == <<"a", "b", "c", "d", "e", "f", "g", "h", "i", "j", "k", "l", "m",
                "n", "o", "p", "q", "r", "s", "t", "u", "v", "w", "x", "y", "z">>

LowerChar(c) ==
    IF \E i \in DOMAIN UpperChars : UpperChars[i] = c
    THEN LowerChars[CHOOSE i \in DOMAIN UpperChars : UpperChars[i] = c]
    ELSE c

\* s.lower()
Lower(s) == [i \in 1..Len(s) |-> LowerChar(s[i])]

\* s.replace(old, new) for a one-character old
ReplaceChar(s, old, new) == [i \in 1..Len(s) |-> IF s[i] = old THEN new ELSE s[i]]

DigitChars == <<"0", "1", "2", "3", "4", "5", "6", "7", "8", "9">>

IsDigit(c) == \E i \in DOMAIN DigitChars : DigitChars[i] = c

DigitVal(c) == (CHOOSE i \in DOMAIN DigitChars : DigitChars[i] = c) - 1

AllDigits(s) == \A i \in 1..Len(s) : IsDigit(s[i])

\* int(s) of a digit string
RECURSIVE IntOf(_)
IntOf(s) == IF Len(s) = 0 THEN 0
            ELSE 10 * IntOf(SubSeq(s, 1, Len(s) - 1)) + DigitVal(s[Len(s)])

\* "%02d" % n
Pad2(n) == <<DigitChars[(n \div 10) + 1], DigitChars[(n % 10) + 1]>>

\* "%04d" % n
Pad4(n) == Pad2(n \div 100) \o Pad2(n % 100)

-----------------------------------------------------------------------------
(* format_pdf_date, lines 98-114 *)

Returned(v) == [kind |-> "return", value |-> v]
Raised(e) == [kind |-> "raise", exc |-> e]

\* the slice pdf_date[:14] of line 107 and the tests of line 109
TimestampLen == 14

FieldNames == <<"m", "d", "H", "M", "S">>

\* One alternative of a directive of the regular expression strptime compiles
\* for "%Y%m%d%H%M%S": (?P<m>1[0-2]|0[1-9]|[1-9]) (?P<d>3[0-1]|[1-2]\d|0[1-9]|[1-9]| [1-9])
\* (?P<H>2[0-3]|[0-1]\d|\d) (?P<M>[0-5]\d|\d) (?P<S>6[0-1]|[0-5]\d|\d)
FieldMatches(f, s) ==
    IF Len(s) = 2
    THEN \/ /\ AllDigits(s)
            /\ CASE f = "m" -> IntOf(s) \in 1..12
                 [] f = "d" -> IntOf(s) \in 1..31
                 [] f = "H" -> IntOf(s) \in 0..23
                 [] f = "M" -> IntOf(s) \in 0..59
                 [] f = "S" -> IntOf(s) \in 0..61
         \/ f = "d" /\ s[1] = " " /\ IsDigit(s[2]) /\ DigitVal(s[2]) \in 1..9
    ELSE /\ Len(s) = 1
         /\ IsDigit(s[1])
         /\ (f \in {"m", "d"} => DigitVal(s[1]) \in 1..9)

FieldValue(s) == IF s[1] = " " THEN DigitVal(s[2]) ELSE IntOf(s)

\* The k-th way to give the five fields after %Y a width, in the order the
\* backtracking matcher tries them: the two-character alternatives of a
\* directive come before its one-character alternative, earlier fields vary last.
WidthsOf(k) == [f \in 1..5 |-> IF (k \div (2 ^ (5 - f))) % 2 = 0 THEN 2 ELSE 1]

FieldStart(w, f) == 5 + (IF f > 1 THEN w[1] ELSE 0) + (IF f > 2 THEN w[2] ELSE 0)
                      + (IF f > 3 THEN w[3] ELSE 0) + (IF f > 4 THEN w[4] ELSE 0)

FieldText(data, w, f) == SubSeq(data, FieldStart(w, f), FieldStart(w, f) + w[f] - 1)

MatchEnd(w) == 4 + w[1] + w[2] + w[3] + w[4] + w[5]

WidthsMatch(data, w) ==
    /\ MatchEnd(w) <= Len(data)
    /\ \A f \in 1..5 : FieldMatches(FieldNames[f], FieldText(data, w, f))

IsLeap(y) == (y % 4 = 0 /\ y % 100 # 0) \/ y % 400 = 0

DaysInMonth(y, m) ==
    IF m = 2 THEN (IF IsLeap(y) THEN 29 ELSE 28)
    ELSE IF m \in {4, 6, 9, 11} THEN 30 ELSE 31

\* datetime.strptime(data, "%Y%m%d%H%M%S"): the parsed fields, or ValueError
\* (no match, unconverted data remains, year 0, day out of range for month,
\* second 60 or 61).
strptime(data) ==
    IF Len(data) < 4 \/ ~AllDigits(Take(data, 4))
       \/ ~(\E k \in 0..31 : WidthsMatch(data, WidthsOf(k)))
    THEN Raised("ValueError")
    ELSE LET k0 == CHOOSE k \in 0..31 :
                     /\ WidthsMatch(data, WidthsOf(k))
                     /\ \A j \in 0..31 : WidthsMatch(data, WidthsOf(j)) => k <= j
             w == WidthsOf(k0)
             Y == IntOf(Take(data, 4))
             F(f) == FieldValue(FieldText(data, w, f))
         IN IF MatchEnd(w) # Len(data) THEN Raised("ValueError")
            ELSE IF Y < 1 \/ F(2) > DaysInMonth(Y, F(1)) \/ F(5) > 59
            THEN Raised("ValueError")
            ELSE Returned([Y |-> Y, m |-> F(1), d |-> F(2), H |-> F(3), M |-> F(4), S |-> F(5)])

\* date_obj.strftime("%Y-%m-%d %H:%M:%S")
strftime(t) == Pad4(t.Y) \o <<"-">> \o Pad2(t.m) \o <<"-">> \o Pad2(t.d) \o <<" ">>
               \o Pad2(t.H) \o <<":">> \o Pad2(t.M) \o <<":">> \o Pad2(t.S)

\* the D: prefix test of line 103
DatePrefix == <<"D", ":">>

format_pdf_date(pdf_date) ==
    IF pdf_date = PyNone
    THEN Raised("AttributeError")     \* None has no startswith; only ValueError is caught
    ELSE LET stripped == IF StartsWith(pdf_date, DatePrefix) THEN Drop(pdf_date, 2) ELSE pdf_date
             date_obj == strptime(Take(stripped, TimestampLen))
             timezone == IF Len(stripped) > TimestampLen THEN Drop(stripped, TimestampLen) ELSE <<>>
             timezone_replaced == ReplaceChar(timezone, "'", ":")
         IN IF date_obj.kind = "raise"
            THEN Returned(stripped)   \* line 114 returns the rebound, stripped pdf_date
            ELSE Returned(strftime(date_obj.value) \o timezone_replaced)

-----------------------------------------------------------------------------
(* extract_metadata, lines 66-95 *)

Unknown == <<"U", "n", "k", "n", "o", "w", "n">>

\* the vocabulary with the vendor name "Adobe" added
edit_softwares_with_vendor ==
    << <<"A", "c", "r", "o", "b", "a", "t">>,
       <<"P", "h", "o", "t", "o", "s", "h", "o", "p">>,
       <<"W", "o", "r", "d">>,
       <<"G", "I", "M", "P">>,
       <<"I", "l", "l", "u", "s", "t", "r", "a", "t", "o", "r">>,
       <<"A", "d", "o", "b", "e">> >>

edit_softwares == << <<"A", "c", "r", "o", "b", "a", "t">>,
                     <<"P", "h", "o", "t", "o", "s", "h", "o", "p">>,
                     <<"W", "o", "r", "d">>,
                     <<"G", "I", "M", "P">>,
                     <<"I", "l", "l", "u", "s", "t", "r", "a", "t", "o", "r">> >>

ErrorValue(msg) == [error |-> msg]

IsError(d) == "error" \in DOMAIN d

extract_metadata(metadata) ==
    IF metadata = PyNoneDict
    THEN ErrorValue("Error running ExifTool")      \* metadata.get raises, caught at line 94
    ELSE LET creation_date == DictGet(metadata, "creationDate", Unknown)
             mod_date == DictGet(metadata, "modDate", Unknown)
             producer == DictGet(metadata, "producer", Unknown)
             creator == DictGet(metadata, "creator", Unknown)
             author == DictGet(metadata, "author", Unknown)
         IN IF producer = PyNone \/ creator = PyNone
            THEN ErrorValue("Error running ExifTool")   \* producer + creator raises TypeError
            ELSE [metadata |-> [creation_date |-> creation_date,
                                modification_date |-> mod_date,
                                producer |-> producer,
                                creator |-> creator,
                                author |-> author],
                  analysis_editions |->
                      [edited_by_dates |-> (mod_date # creation_date /\ mod_date # Unknown),
                       edited_by_software |->
                           \E i \in DOMAIN edit_softwares :
                               Contains(Lower(producer \o creator), Lower(edit_softwares[i]))]]

-----------------------------------------------------------------------------
(* parse_pdf_low_level, lines 117-166 *)

DEFAULT_FONTS_BANK_OF_AMERICAN ==
    <<"AAAAAH+ConnectionsIta_CZEX0AC0",
      "AAAAAB+ITC_Franklin_Gothic_Book_CZEX0080",
      "AAAAAD+HigherStandards_CZEX0660",
      "AAAAAL+ConnectionsBold_CZEX0AA0",
      "AAAAAJ+Connections_Medium_CZEX0A80",
      "AAAAAF+Connections_CZEX0A60">>

\* x in a list
InList(x, list) == \E i \in DOMAIN list : list[i] = x

ListToSet(list) == {list[i] : i \in DOMAIN list}

\* the test of line 128 skipped for a character without a font name
IsSuspiciousFontWhenNamed(font) ==
    font # "unknown" /\ ~InList(font, DEFAULT_FONTS_BANK_OF_AMERICAN)

\* font not in DEFAULT_FONTS_BANK_OF_AMERICAN (line 128)
IsSuspiciousFont(font) == ~InList(font, DEFAULT_FONTS_BANK_OF_AMERICAN)

\* The dict of lines 135-142.  The string literal after "bbox" is joined by
\* the parser to the literal "text" that follows it, so the character's text
\* is stored under the concatenated key and no key "text" exists.
Region(page_num, char) ==
    [page |-> page_num,
     fontname |-> DictGet(char, "fontname", "unknown"),
     bbox |-> <<DictGet(char, "x0", 0), DictGet(char, "top", 0),
                DictGet(char, "x1", 0), DictGet(char, "bottom", 0)>>,
     width |-> DictGet(char, "width", 0),
     height |-> DictGet(char, "height", 0)]
    @@ ("(x0, top, x1, bottom) - coordinates in PDFtext" :> DictGet(char, "text", ""))

\* the inner loop of lines 125-142 over the characters of one page
RECURSIVE ScanChars(_, _)
ScanChars(chars, page_num) ==
    IF chars = <<>> THEN <<>>
    ELSE LET char == Head(chars)
             font == DictGet(char, "fontname", "unknown")
         IN (IF IsSuspiciousFont(font) THEN <<Region(page_num, char)>> ELSE <<>>)
            \o ScanChars(Tail(chars), page_num)

\* the first page number of enumerate(pdf.pages, 1), line 123
FirstPageNumber == 1

\* the outer loop of lines 123-142: pages from index i on
RECURSIVE ScanPages(_, _)
ScanPages(pages, i) ==
    IF i > Len(pages) THEN <<>>
    ELSE ScanChars(pages[i], i - 1 + FirstPageNumber) \o ScanPages(pages, i + 1)

\* the set fonts of lines 121 and 127
FontsOf(pages) ==
    UNION {{DictGet(pages[p][c], "fontname", "unknown") : c \in DOMAIN pages[p]} :
           p \in DOMAIN pages}

SuspiciousObjectTypes == {"/JavaScript", "/OpenAction"}

\* pdf is what pdfplumber finds at pdf_path: readable or not, its pages as
\* character lists, the XObject types of the pages, the XMP version history.
parse_pdf_low_level(pdf) ==
    IF ~pdf.plumber_ok
    THEN ErrorValue("Error running pdfplumber")
    ELSE LET fonts == FontsOf(pdf.pages)
             suspicious_regions == ScanPages(pdf.pages, 1)
             suspicious_objects == pdf.xobject_types \cap SuspiciousObjectTypes # {}
         IN [revisions |-> Len(pdf.version_history),
             font_count |-> Cardinality(fonts),
             fonts_used |-> fonts,
             suspicious_regions |-> suspicious_regions,
             suspicious_objects |-> suspicious_objects,
             note |-> [fonts_detected |-> Cardinality(fonts),
                       occurrences |-> Len(suspicious_regions),
                       objects |-> IF suspicious_regions # <<>> \/ suspicious_objects
                                   THEN "Suspicious objects found"
                                   ELSE "No suspicious objects"]]

-----------------------------------------------------------------------------
(* extract_account_number and structure_extract_in_json, lines 185-267 *)

(* The statement text is a sequence of lines; a line is                    *)
(*   [label, lead, amount]: a label phrase, the text between the label and *)
(*   the figure, and the figure's characters.                              *)
(* The label "NAME" marks a line of upper-case letters and blanks only     *)
(* (its characters in amount), "TXN" a line led by a date (the date in     *)
(* lead), "TEXT" any other line.  A regular expression of the source is a  *)
(* set of labels, the lead it requires and the figure pattern.             *)

IsSpace(c) == c \in {" ", "\n", "\t"}

\* s.strip()
RECURSIVE LStrip(_)
LStrip(s) == IF s # <<>> /\ IsSpace(Head(s)) THEN LStrip(Tail(s)) ELSE s
RECURSIVE RStrip(_)
RStrip(s) == IF s # <<>> /\ IsSpace(s[Len(s)]) THEN RStrip(SubSeq(s, 1, Len(s) - 1)) ELSE s
Strip(s) == RStrip(LStrip(s))

\* the length of the longest prefix of s whose characters are in class
PrefixLen(s, class) ==
    CHOOSE n \in 0..Len(s) :
        /\ \A i \in 1..n : s[i] \in class
        /\ (n = Len(s) \/ s[n + 1] \notin class)

\* the character class [\d,]
IsFigureChar == {DigitChars[i] : i \in DOMAIN DigitChars} \cup {","}

\* the group ([\d,]+\.\d{2}) matched at the head of s: its length, 0 for no match
FigureLen(s) ==
    LET n == PrefixLen(s, IsFigureChar)
    IN IF n >= 1 /\ Len(s) >= n + 3 /\ s[n + 1] = "." /\ IsDigit(s[n + 2]) /\ IsDigit(s[n + 3])
       THEN n + 3 ELSE 0

RemoveCommas(s) == SelectSeq(s, LAMBDA c : c # ",")

\* float(value_str.replace(',', '')), in hundredths
FloatOf(value_str) ==
    LET t == RemoveCommas(value_str)
        n == Len(t)
    IN 100 * IntOf(SubSeq(t, 1, n - 3)) + IntOf(SubSeq(t, n - 1, n))

\* a pattern that lost the characters between the label and the figure
LineMatchesAnyLead(line, pattern) ==
    /\ line.label \in pattern.labels
    /\ FigureLen(line.amount) > 0

LineMatches(line, pattern) ==
    /\ line.label \in pattern.labels
    /\ line.lead = pattern.lead
    /\ FigureLen(line.amount) > 0

\* find_value, lines 227-233: re.search takes the first match in the text
find_value(pattern, text, negative) ==
    IF \E i \in DOMAIN text : LineMatches(text[i], pattern)
    THEN LET i == CHOOSE i \in DOMAIN text :
                    /\ LineMatches(text[i], pattern)
                    /\ \A j \in DOMAIN text : LineMatches(text[j], pattern) => i <= j
             value_float == FloatOf(Take(text[i].amount, FigureLen(text[i].amount)))
         IN IF negative THEN 0 - value_float ELSE value_float
    ELSE 0

\* a or b on floats
FloatOr(a, b) == IF a # 0 THEN a ELSE b

\* the character class [\d\s]
IsDigitOrSpace == {DigitChars[i] : i \in DOMAIN DigitChars} \cup {" ", "\n", "\t"}

\* what follows the label of line i up to the start of line i + 1
AfterLabel(text, i) ==
    text[i].lead \o text[i].amount \o (IF i < Len(text) THEN <<"\n">> ELSE <<>>)

AccountLabels == {"Account number:", "Account #"}

AccountMatches(text, i) ==
    /\ text[i].label \in AccountLabels
    /\ PrefixLen(AfterLabel(text, i), IsDigitOrSpace) >= 1

\* extract_account_number, lines 198-204: Account (?:number:|#)\s*([\d\s]+)
extract_account_number(full_text) ==
    IF \E i \in DOMAIN full_text : AccountMatches(full_text, i)
    THEN LET i == CHOOSE i \in DOMAIN full_text :
                    /\ AccountMatches(full_text, i)
                    /\ \A j \in DOMAIN full_text : AccountMatches(full_text, j) => i <= j
             rest == AfterLabel(full_text, i)
         IN Strip(Take(rest, PrefixLen(rest, IsDigitOrSpace)))
    ELSE PyNone

\* ^([A-Z\s]+)\nAccount summary matches from line s: lines s..e-1 are NAME
\* lines and line e starts with "Account summary"
HolderMatch(text, s, e) ==
    /\ s < e /\ e \in DOMAIN text
    /\ \A j \in s..(e - 1) : text[j].label = "NAME"
    /\ text[e].label = "Account summary"

RECURSIVE JoinNames(_, _, _)
JoinNames(text, s, e) ==
    IF s >= e THEN <<>>
    ELSE text[s].amount \o (IF s + 1 < e THEN <<"\n">> ELSE <<>>) \o JoinNames(text, s + 1, e)

NameNotFound == <<"N", "a", "m", "e", " ", "n", "o", "t", " ", "f", "o", "u", "n", "d">>

account_holder(full_text) ==
    IF \E s, e \in DOMAIN full_text : HolderMatch(full_text, s, e)
    THEN LET s == CHOOSE s \in DOMAIN full_text :
                    /\ \E e \in DOMAIN full_text : HolderMatch(full_text, s, e)
                    /\ \A t \in DOMAIN full_text :
                          (\E e \in DOMAIN full_text : HolderMatch(full_text, t, e)) => s <= t
             e == CHOOSE e \in DOMAIN full_text : HolderMatch(full_text, s, e)
         IN Strip(JoinNames(full_text, s, e))
    ELSE NameNotFound

Pattern(labels, lead) == [labels |-> labels, lead |-> lead]

\* the itemised lines of lines 253-264: (-?[\d,]+\.\d{2})$ must end the line
TxnMatches(line) ==
    /\ line.label = "TXN"
    /\ LET a == IF line.amount # <<>> /\ Head(line.amount) = "-" THEN Tail(line.amount)
                ELSE line.amount
       IN FigureLen(a) > 0 /\ FigureLen(a) = Len(a)

TxnValue(line) ==
    IF Head(line.amount) = "-" THEN 0 - FloatOf(Tail(line.amount)) ELSE FloatOf(line.amount)

RECURSIVE transactions_list(_)
transactions_list(text) ==
    IF text = <<>> THEN <<>>
    ELSE (IF TxnMatches(Head(text))
          THEN <<[date |-> Head(text).lead, value |-> TxnValue(Head(text))]>> ELSE <<>>)
         \o transactions_list(Tail(text))

structure_extract_in_json(full_text) ==
    [account_holder |-> account_holder(full_text),
     account_summary |->
        [account_number |-> extract_account_number(full_text),
         initial_balance |-> find_value(Pattern({"Beginning balance on"}, <<" ", "$">>), full_text, FALSE),
         deposits_additions |->
            find_value(Pattern({"Deposits and other additions", "Deposits and other credits"}, <<" ">>),
                       full_text, FALSE),
         card_withdrawals |->
            find_value(Pattern({"ATM and debit card subtractions"}, <<" ", "-">>), full_text, TRUE),
         other_withdrawals |->
            FloatOr(find_value(Pattern({"Other subtractions"}, <<" ", "-">>), full_text, TRUE),
                    find_value(Pattern({"Withdrawals and other debits"}, <<" ", "-">>), full_text, TRUE)),
         service_fees |-> find_value(Pattern({"Service fees"}, <<" ", "-">>), full_text, TRUE),
         final_balance |-> find_value(Pattern({"Ending balance on"}, <<" ", "$">>), full_text, FALSE)],
     total_transactions |->
        [total_deposits_additions |->
            find_value(Pattern({"Total deposits and other additions",
                                "Total deposits and other credits"}, <<" ", "$">>), full_text, FALSE),
         total_card_withdrawals |->
            find_value(Pattern({"Total ATM and debit card subtractions"}, <<" ", "-", "$">>), full_text, TRUE),
         total_other_withdrawals |->
            find_value(Pattern({"Total other subtractions",
                                "Total withdrawals and other debits"}, <<" ", "-", "$">>), full_text, TRUE)],
     transactions |-> transactions_list(full_text)]

-----------------------------------------------------------------------------
(* The handler at rest, for the specifications that apply one function *)

NoFile == [exists |-> FALSE]

PipelineIdle ==
    /\ batch = <<>> /\ pc = <<>> /\ idx = <<>> /\ running = {}
    /\ frame = <<>> /\ final_result = <<>> /\ exc = <<>> /\ failed = <<>>
    /\ temp_pdf = NoFile /\ artifacts = {} /\ handles = {}

Pending == [kind |-> "pending"]

Prefixes(s) == {SubSeq(s, 1, n) : n \in 0..Len(s)}
Suffixes(s) == {SubSeq(s, n, Len(s)) : n \in 1..(Len(s) + 1)}

-----------------------------------------------------------------------------
(* SpecDate: format_pdf_date applied to what metadata_orig.get(key) supplies *)
(* at lines 316-317: None for an absent key, or a string.                   *)

SampleTimestamps ==
    { <<"2", "0", "2", "5", "0", "7", "3", "1", "1", "4", "4", "3", "5", "3">>,
      <<"2", "0", "2", "4", "0", "2", "3", "0", "1", "2", "0", "0", "0", "0">>,
      <<"2", "0", "2", "5", "1", "1", "1", "1", "1", "1", "1", "1", "6", "0">>,
      <<"0", "0", "0", "0", "0", "1", "0", "1", "0", "0", "0", "0", "0", "0">> }

SampleZones == { <<>>, <<"-", "0", "5", "'", "0", "0">>, <<"Z">> }

DateInputs ==
    {PyNone} \cup
    { p \o b \o z : p \in {<<>>, DatePrefix},
                    b \in UNION {Prefixes(t) : t \in SampleTimestamps},
                    z \in SampleZones }

InitDate ==
    /\ call \in {[fn |-> "format_pdf_date", arg |-> a] : a \in DateInputs}
    /\ ret = Pending
    /\ PipelineIdle

CallFormatPdfDate ==
    /\ call.fn = "format_pdf_date"
    /\ ret = Pending
    /\ ret' = format_pdf_date(call.arg)
    /\ UNCHANGED <<call, pipeline_vars>>

NextDate == CallFormatPdfDate

SpecDate == InitDate /\ [][NextDate]_vars

\* a string that holds, after an optional "D:", a 14-digit YYYYMMDDHHMMSS timestamp
WellFormedTimestamp(x) ==
    LET s == IF Len(x) >= 2 /\ x[1] = "D" /\ x[2] = ":" THEN SubSeq(x, 3, Len(x)) ELSE x
    IN /\ Len(s) >= 14
       /\ \A i \in 1..14 : IsDigit(s[i])
       /\ LET Y == IntOf(SubSeq(s, 1, 4))
              mo == IntOf(SubSeq(s, 5, 6))
          IN /\ Y >= 1
             /\ mo \in 1..12
             /\ IntOf(SubSeq(s, 7, 8)) \in 1..DaysInMonth(Y, mo)
             /\ IntOf(SubSeq(s, 9, 10)) \in 0..23
             /\ IntOf(SubSeq(s, 11, 12)) \in 0..59
             /\ IntOf(SubSeq(s, 13, 14)) \in 0..59

DateCalled == call.fn = "format_pdf_date" /\ ret # Pending

\* C5: format_pdf_date never raises, for any input the metadata map can
\* supply (an absent value included), and it returns a malformed or too short
\* timestamp identical to its input.
C5_NeverRaisesEchoesMalformed ==
    DateCalled =>
        /\ ret.kind = "return"
        /\ (call.arg # PyNone /\ ~WellFormedTimestamp(call.arg) => ret.value = call.arg)

-----------------------------------------------------------------------------
(* SpecMeta: extract_metadata applied to a metadata mapping *)

AbsentKey == <<"absent">>

MetaKeys == {"creationDate", "modDate", "producer", "creator", "author"}

\* the mapping that holds the keys whose value is not AbsentKey
MakeMeta(full) == [k \in {k \in MetaKeys : full[k] # AbsentKey} |-> full[k]]

SampleTools ==
    { <<"A", "d", "o", "b", "e", " ", "A", "c", "r", "o", "b", "a", "t">>,
      <<"M", "i", "c", "r", "o", "s", "o", "f", "t", " ", "W", "o", "r", "d">>,
      <<"g", "i", "m", "p">>,
      <<"p", "d", "f", "T", "e", "X">> }

ToolPieces == UNION {Prefixes(t) \cup Suffixes(t) : t \in SampleTools}

SampleDates ==
    { <<"D", ":", "2", "0", "2", "4", "0", "1", "0", "1", "0", "0", "0", "0", "0", "0">>,
      <<"D", ":", "2", "0", "2", "4", "0", "1", "0", "2", "0", "0", "0", "0", "0", "0">> }

MetaInputs ==
    {PyNoneDict} \cup
    { MakeMeta([creationDate |-> c, modDate |-> m, producer |-> p, creator |-> cr,
                author |-> AbsentKey]) :
        c \in {<<"D", ":", "2", "0", "2", "4", "0", "1", "0", "1", "0", "0", "0", "0", "0", "0">>},
        m \in SampleDates \cup {AbsentKey},
        p \in ToolPieces \cup {AbsentKey, PyNone},
        cr \in ToolPieces \cup {AbsentKey, PyNone} }

InitMeta ==
    /\ call \in {[fn |-> "extract_metadata", arg |-> a] : a \in MetaInputs}
    /\ ret = Pending
    /\ PipelineIdle

CallExtractMetadata ==
    /\ call.fn = "extract_metadata"
    /\ ret = Pending
    /\ ret' = Returned(extract_metadata(call.arg))
    /\ UNCHANGED <<call, pipeline_vars>>

NextMeta == CallExtractMetadata

SpecMeta == InitMeta /\ [][NextMeta]_vars

ToolNamesLower ==
    { <<"a", "c", "r", "o", "b", "a", "t">>,
      <<"p", "h", "o", "t", "o", "s", "h", "o", "p">>,
      <<"w", "o", "r", "d">>,
      <<"g", "i", "m", "p">>,
      <<"i", "l", "l", "u", "s", "t", "r", "a", "t", "o", "r">> }

\* s holds one of the five names, whatever the case of its letters
HasToolName(s) ==
    \E name \in ToolNamesLower :
        \E i \in 1..(Len(s) - Len(name) + 1) :
            \A j \in 1..Len(name) : LowerChar(s[i + j - 1]) = name[j]

MetaCalled == call.fn = "extract_metadata" /\ ret # Pending

\* the producer and the creator extract_metadata works on, for a mapping that
\* holds strings (an absent key reads as "Unknown")
StringFields ==
    /\ call.arg # PyNoneDict
    /\ DictGet(call.arg, "producer", Unknown) # PyNone
    /\ DictGet(call.arg, "creator", Unknown) # PyNone

ArgProducer == DictGet(call.arg, "producer", Unknown)
ArgCreator == DictGet(call.arg, "creator", Unknown)

SoftwareFlagFalse ==
    /\ ~IsError(ret.value)
    /\ ret.value.analysis_editions.edited_by_software = FALSE

\* C6 as claimed: when neither the producer nor the creator holds one of the
\* five names (case-insensitively), edited_by_software is false.
C6_NoNameInEitherValue ==
    (MetaCalled /\ StringFields /\ ~HasToolName(ArgProducer) /\ ~HasToolName(ArgCreator))
        => SoftwareFlagFalse

\* C6 amended: when the concatenation producer + creator holds none of the
\* five names (case-insensitively), edited_by_software is false.
C6_NoNameInConcatenation ==
    (MetaCalled /\ StringFields /\ ~HasToolName(ArgProducer \o ArgCreator))
        => SoftwareFlagFalse

\* C6 witness: a producer and a creator, both given and neither empty, whose
\* concatenation is free of the names, and the flag computed false.
C6_Witness ==
    /\ MetaCalled /\ StringFields
    /\ "producer" \in DOMAIN call.arg /\ "creator" \in DOMAIN call.arg
    /\ Len(ArgProducer) > 3 /\ Len(ArgCreator) > 3
    /\ ~HasToolName(ArgProducer \o ArgCreator)
    /\ SoftwareFlagFalse

-----------------------------------------------------------------------------
(* SpecFonts: parse_pdf_low_level applied to the character streams of a document *)

MaxPages == 2
MaxChars == 2

\* characters as pdfplumber reports them: a whitelisted font, a font outside
\* the whitelist, and a character without a "fontname" key and without "x1"
SampleChars ==
    { [fontname |-> "AAAAAF+Connections_CZEX0A60", x0 |-> 10, top |-> 20, x1 |-> 15,
       bottom |-> 30, text |-> "a", width |-> 5, height |-> 10],
      [fontname |-> "Helvetica", x0 |-> 40, top |-> 20, x1 |-> 46,
       bottom |-> 30, text |-> "9", width |-> 6, height |-> 10],
      [x0 |-> 70, top |-> 50, bottom |-> 62, text |-> "7", width |-> 4, height |-> 12] }

SeqsUpTo(S, n) == UNION {[1..k -> S] : k \in 0..n}

SamplePages == SeqsUpTo(SeqsUpTo(SampleChars, MaxChars), MaxPages)

Plumbed(pages, xobjects) ==
    [plumber_ok |-> TRUE, pages |-> pages, xobject_types |-> xobjects,
     version_history |-> <<>>]

Unreadable ==
    [plumber_ok |-> FALSE, pages |-> <<>>, xobject_types |-> {}, version_history |-> <<>>]

FontInputs ==
    {Unreadable} \cup {Plumbed(pages, {}) : pages \in SamplePages}
    \cup {Plumbed(<<>>, {"/JavaScript"}), Plumbed(<<>>, {"/Image"})}

InitFonts ==
    /\ call \in {[fn |-> "parse_pdf_low_level", arg |-> a] : a \in FontInputs}
    /\ ret = Pending
    /\ PipelineIdle

CallParsePdfLowLevel ==
    /\ call.fn = "parse_pdf_low_level"
    /\ ret = Pending
    /\ ret' = Returned(parse_pdf_low_level(call.arg))
    /\ UNCHANGED <<call, pipeline_vars>>

NextFonts == CallParsePdfLowLevel

SpecFonts == InitFonts /\ [][NextFonts]_vars

FontsCalled == call.fn = "parse_pdf_low_level" /\ ret # Pending /\ call.arg.plumber_ok

FontAt(pages, p, c) ==
    IF "fontname" \in DOMAIN pages[p][c] THEN pages[p][c].fontname ELSE "unknown"

\* the places (page, index in the page) of the characters outside the whitelist
OffWhitelist(pages) ==
    {pos \in UNION {{<<p, c>> : c \in DOMAIN pages[p]} : p \in DOMAIN pages} :
        \A i \in DOMAIN DEFAULT_FONTS_BANK_OF_AMERICAN :
            DEFAULT_FONTS_BANK_OF_AMERICAN[i] # FontAt(pages, pos[1], pos[2])}

\* how many of these places come at or before pos, in page then encounter order
RankOf(pages, pos) ==
    Cardinality({q \in OffWhitelist(pages) :
                    q[1] < pos[1] \/ (q[1] = pos[1] /\ q[2] <= pos[2])})

Coordinate(char, key) == IF key \in DOMAIN char THEN char[key] ELSE 0

\* C8: suspicious_regions holds exactly one entry per character whose font is
\* outside the whitelist, in page order then encounter order, each with the
\* character's page number and its (x0, top, x1, bottom) box.
C8_OneRegionPerForeignGlyph ==
    FontsCalled =>
        LET pages == call.arg.pages
            regions == ret.value.suspicious_regions
        IN /\ Len(regions) = Cardinality(OffWhitelist(pages))
           /\ \A pos \in OffWhitelist(pages) :
                 LET r == regions[RankOf(pages, pos)]
                     char == pages[pos[1]][pos[2]]
                 IN /\ r.page = pos[1]
                    /\ r.bbox = <<Coordinate(char, "x0"), Coordinate(char, "top"),
                                  Coordinate(char, "x1"), Coordinate(char, "bottom")>>

\* C8 witness: two pages, a whitelisted glyph that is passed over and a glyph
\* outside the whitelist on each page, scanned into two regions.
C8_Witness ==
    /\ FontsCalled
    /\ Len(call.arg.pages) = 2
    /\ \E c \in DOMAIN call.arg.pages[1] :
          FontAt(call.arg.pages, 1, c) = "AAAAAF+Connections_CZEX0A60"
    /\ Len(ret.value.suspicious_regions) = 2
    /\ ret.value.suspicious_regions[1].page = 1
    /\ ret.value.suspicious_regions[2].page = 2

-----------------------------------------------------------------------------
(* SpecStmt: structure_extract_in_json applied to a statement text *)

MaxLines == 2

Line(label, lead, amount) == [label |-> label, lead |-> lead, amount |-> amount]

\* a statement of the template family, line by line
FullStatement ==
    << Line("NAME", <<>>, <<"J", "O", "H", "N", " ", "D", "O", "E">>),
       Line("Account summary", <<>>, <<>>),
       Line("Account number:", <<" ">>, <<"4", "4", "6", "0", " ", "1", "2", "3", "4">>),
       Line("Beginning balance on", <<" ", "$">>, <<"1", ",", "2", "3", "4", ".", "5", "6">>),
       Line("Deposits and other credits", <<" ">>, <<"7", "5", ".", "1", "0">>),
       Line("ATM and debit card subtractions", <<" ", "-">>, <<"2", "0", ".", "0", "0">>),
       Line("Other subtractions", <<" ", "-">>, <<"0", ".", "0", "0">>),
       Line("Withdrawals and other debits", <<" ", "-">>, <<"5", ".", "0", "0">>),
       Line("Service fees", <<" ", "-">>, <<"1", ".", "0", "0">>),
       Line("Ending balance on", <<" ", "$">>, <<"1", ",", "2", "8", "3", ".", "6", "6">>),
       Line("Total deposits and other credits", <<" ", "$">>, <<"7", "5", ".", "1", "0">>),
       Line("Total ATM and debit card subtractions", <<" ", "-", "$">>, <<"2", "0", ".", "0", "0">>),
       Line("Total other subtractions", <<" ", "-", "$">>, <<"5", ".", "0", "0">>),
       Line("TXN", <<"0", "1", "/", "0", "2", "/", "2", "4">>, <<"-", "2", "0", ".", "0", "0">>) >>

\* lines that carry a label without the shape its pattern asks for
OddLines ==
    { Line("Beginning balance on", <<" ">>, <<"9", ".", "9", "9">>),
      Line("Service fees", <<" ", "-">>, <<"1", ".", "0">>),
      Line("Account #", <<>>, <<"X">>),
      Line("TEXT", <<>>, <<>>) }

StatementLines == ListToSet(FullStatement) \cup OddLines

\* the sequence s without its i-th element
Without(s, i) == SubSeq(s, 1, i - 1) \o SubSeq(s, i + 1, Len(s))

StmtInputs ==
    SeqsUpTo(StatementLines, MaxLines)
    \cup {FullStatement}
    \cup {Without(FullStatement, i) : i \in DOMAIN FullStatement}

InitStmt ==
    /\ call \in {[fn |-> "structure_extract_in_json", arg |-> a] : a \in StmtInputs}
    /\ ret = Pending
    /\ PipelineIdle

CallStructureExtract ==
    /\ call.fn = "structure_extract_in_json"
    /\ ret = Pending
    /\ ret' = Returned(structure_extract_in_json(call.arg))
    /\ UNCHANGED <<call, pipeline_vars>>

NextStmt == CallStructureExtract

SpecStmt == InitStmt /\ [][NextStmt]_vars

StmtCalled == call.fn = "structure_extract_in_json" /\ ret # Pending

SummaryKeys == {"account_number", "initial_balance", "deposits_additions", "card_withdrawals",
                "other_withdrawals", "service_fees", "final_balance"}

TotalKeys == {"total_deposits_additions", "total_card_withdrawals", "total_other_withdrawals"}

\* a figure d...d.dd, commas allowed before the point, leads the characters a
WellFormedFigure(a) ==
    \E n \in 1..Len(a) :
        /\ \A i \in 1..n : IsDigit(a[i]) \/ a[i] = ","
        /\ Len(a) >= n + 3
        /\ a[n + 1] = "." /\ IsDigit(a[n + 2]) /\ IsDigit(a[n + 3])

\* no line of the text carries one of the labels with the lead and a figure
NoAnchor(text, labels, lead) ==
    \A i \in DOMAIN text :
        ~(text[i].label \in labels /\ text[i].lead = lead /\ WellFormedFigure(text[i].amount))

\* the anchors of the figures: field -> the labels and the lead of its pattern(s)
FigureAnchors ==
    [initial_balance |-> <<{"Beginning balance on"}, <<" ", "$">>>>,
     deposits_additions |-> <<{"Deposits and other additions", "Deposits and other credits"}, <<" ">>>>,
     card_withdrawals |-> <<{"ATM and debit card subtractions"}, <<" ", "-">>>>,
     other_withdrawals |-> <<{"Other subtractions", "Withdrawals and other debits"}, <<" ", "-">>>>,
     service_fees |-> <<{"Service fees"}, <<" ", "-">>>>,
     final_balance |-> <<{"Ending balance on"}, <<" ", "$">>>>]

TotalAnchors ==
    [total_deposits_additions |->
        <<{"Total deposits and other additions", "Total deposits and other credits"}, <<" ", "$">>>>,
     total_card_withdrawals |-> <<{"Total ATM and debit card subtractions"}, <<" ", "-", "$">>>>,
     total_other_withdrawals |->
        <<{"Total other subtractions", "Total withdrawals and other debits"}, <<" ", "-", "$">>>>]

NoHolderAnchor(text) ==
    \A i \in DOMAIN text : text[i].label = "Account summary" =>
        (i = 1 \/ text[i - 1].label # "NAME")

NoAccountAnchor(text) == \A i \in DOMAIN text : text[i].label \notin {"Account number:", "Account #"}

\* the part of C7 that does not concern account_number: the keys are there,
\* the holder and the figures are not null, and a holder or a figure without
\* an anchor in the text holds its default
StmtDefaults ==
    LET rec == ret.value
        text == call.arg
    IN /\ DOMAIN rec = {"account_holder", "account_summary", "total_transactions", "transactions"}
       /\ DOMAIN rec.account_summary = SummaryKeys
       /\ DOMAIN rec.total_transactions = TotalKeys
       /\ rec.account_holder # PyNone
       /\ (NoHolderAnchor(text) => rec.account_holder = NameNotFound)
       /\ \A k \in DOMAIN FigureAnchors :
             /\ rec.account_summary[k] \in Int
             /\ (NoAnchor(text, FigureAnchors[k][1], FigureAnchors[k][2])
                    => rec.account_summary[k] = 0)
       /\ \A k \in DOMAIN TotalAnchors :
             /\ rec.total_transactions[k] \in Int
             /\ (NoAnchor(text, TotalAnchors[k][1], TotalAnchors[k][2])
                    => rec.total_transactions[k] = 0)

\* C7 as claimed: account_holder, all seven account_summary fields and the
\* three total_transactions fields are present and non-null, and a field
\* whose anchor has no match holds its default.
C7_AllFieldsNonNull ==
    StmtCalled => (StmtDefaults /\ ret.value.account_summary.account_number # PyNone)

\* C7 amended: the same for account_holder, the six figures of account_summary
\* and the three totals; account_number is present and holds None when the
\* text has no "Account number:" or "Account #" anchor.
C7_FiguresDefaultAccountNumberNone ==
    StmtCalled =>
        /\ StmtDefaults
        /\ (NoAccountAnchor(call.arg) => ret.value.account_summary.account_number = PyNone)

\* C7 witness: a text with one matched figure and every other anchor missing
C7_Witness ==
    /\ StmtCalled
    /\ ret.value.account_summary.initial_balance = 123456
    /\ ret.value.account_summary.final_balance = 0
    /\ ret.value.account_summary.account_number = PyNone
    /\ ret.value.account_holder = NameNotFound
    /\ ret.value.total_transactions.total_card_withdrawals = 0

-----------------------------------------------------------------------------
(* Sample documents *)

\* one page that uses each font of the whitelist once
WhitelistPage ==
    [c \in DOMAIN DEFAULT_FONTS_BANK_OF_AMERICAN |->
        [fontname |-> DEFAULT_FONTS_BANK_OF_AMERICAN[c], x0 |-> 10 * c, top |-> 20,
         x1 |-> 10 * c + 5, bottom |-> 30, text |-> "a", width |-> 5, height |-> 10]]

SampleDate1 == <<"D", ":", "2", "0", "2", "4", "0", "1", "0", "1", "0", "0", "0", "0", "0", "0">>
SampleDate2 == <<"D", ":", "2", "0", "2", "4", "0", "1", "0", "2", "0", "0", "0", "0", "0", "0">>

CleanMeta ==
    [creationDate |-> SampleDate1, modDate |-> SampleDate1,
     producer |-> <<"p", "d", "f", "T", "e", "X">>,
     creator |-> <<"T", "e", "X">>,
     author |-> <<>>]

\* a statement as issued: equal dates, no editing tool, the whitelist fonts
\* exactly, no image
Clean ==
    [fitz_ok |-> TRUE, metadata |-> CleanMeta, images |-> <<>>,
     plumber_ok |-> TRUE, pages |-> <<WhitelistPage>>, xobject_types |-> {},
     version_history |-> <<>>, text |-> FullStatement]

DateEdited == [Clean EXCEPT !.metadata = [CleanMeta EXCEPT !.modDate = SampleDate2]]

SoftwareEdited ==
    [Clean EXCEPT !.metadata = [CleanMeta EXCEPT !.producer =
        <<"A", "d", "o", "b", "e", " ", "A", "c", "r", "o", "b", "a", "t">>]]

\* an embedded image whose ELA deviation is above the threshold
WithImage ==
    [Clean EXCEPT !.images = <<[page |-> 1, index |-> 0, extractable |-> TRUE,
                                decodable |-> TRUE, ela_std_dev |-> 35]>>]

\* an image entry whose xref doc.extract_image cannot resolve
BadXref ==
    [Clean EXCEPT !.images = <<[page |-> 1, index |-> 0, extractable |-> FALSE,
                                decodable |-> FALSE, ela_std_dev |-> 0]>>]

\* a glyph in Helvetica on page 1, and on page 2 a glyph whose box is not a
\* valid rectangle
ForeignFont ==
    [Clean EXCEPT !.pages =
        << Append(WhitelistPage,
                  [fontname |-> "Helvetica", x0 |-> 40, top |-> 50, x1 |-> 46, bottom |-> 60,
                   text |-> "9", width |-> 6, height |-> 10]),
           << [fontname |-> "Arial", x0 |-> 30, top |-> 50, x1 |-> 20, bottom |-> 60,
               text |-> "1", width |-> 0, height |-> 10] >> >>]

\* bytes MuPDF repairs and opens but pdfplumber fails on
PlumberFails == [Clean EXCEPT !.plumber_ok = FALSE]

\* a document fitz leaves uninitialised (it needs a password): metadata is None
Encrypted == [Clean EXCEPT !.metadata = PyNoneDict]

\* a metadata mapping that holds None for the producer
NoneProducer == [Clean EXCEPT !.metadata = [CleanMeta EXCEPT !.producer = PyNone]]

\* a metadata mapping without the key "modDate"
NoModDate == [Clean EXCEPT !.metadata = MakeMeta([CleanMeta EXCEPT !.modDate = AbsentKey])]

\* bytes that are no PDF
Garbage == [Clean EXCEPT !.fitz_ok = FALSE, !.plumber_ok = FALSE]

\* The uploaded bytes are named; Decoded gives what the parsing collaborators
\* (fitz, pdfplumber, the image codec) find in the bytes of that name.
Contents == {"Clean", "DateEdited", "SoftwareEdited", "WithImage", "BadXref", "ForeignFont",
             "PlumberFails", "Encrypted", "NoneProducer", "NoModDate", "Garbage"}

Decoded(bytes) ==
    CASE bytes = "Clean" -> Clean
      [] bytes = "DateEdited" -> DateEdited
      [] bytes = "SoftwareEdited" -> SoftwareEdited
      [] bytes = "WithImage" -> WithImage
      [] bytes = "BadXref" -> BadXref
      [] bytes = "ForeignFont" -> ForeignFont
      [] bytes = "PlumberFails" -> PlumberFails
      [] bytes = "Encrypted" -> Encrypted
      [] bytes = "NoneProducer" -> NoneProducer
      [] bytes = "NoModDate" -> NoModDate
      [] bytes = "Garbage" -> Garbage

-----------------------------------------------------------------------------
(* analyze_image, lines 30-63 *)

\* the names lines 1-11 bind in the module: numpy (np), cv2 and tempfile are
\* not among them
ImportedNames ==
    {"fitz", "pdfplumber", "io", "os", "subprocess", "json", "re", "Dict", "List",
     "Optional", "Tuple", "FastAPI", "UploadFile", "File", "HTTPException", "PdfReader",
     "datetime"}

\* image_data is what the codec finds in the bytes: decodable or not, and the
\* standard deviation of the ELA field it would yield.  Line 33 evaluates the
\* name np first; an unbound name raises NameError, which line 62 catches.
analyze_image(image_data) ==
    IF "np" \notin ImportedNames \/ "cv2" \notin ImportedNames \/ "tempfile" \notin ImportedNames
    THEN ErrorValue("Error in ELA analysis")
    ELSE IF ~image_data.decodable
    THEN ErrorValue("Unable to load image")
    ELSE [image_stats |-> [ela_std_dev |-> image_data.ela_std_dev, format |-> "JPEG"],
          possible_manipulation |-> image_data.ela_std_dev > 20,
          manipulation_note |-> IF image_data.ela_std_dev > 20
                                THEN "High deviation in ELA indicates editing"
                                ELSE "Uniform ELA"]

-----------------------------------------------------------------------------
(* extract_bank_statement, lines 270-293 *)

extract_bank_statement(pdf) ==
    IF ~pdf.plumber_ok
    THEN ErrorValue("Error processing PDF")
    ELSE structure_extract_in_json(pdf.text)

-----------------------------------------------------------------------------
(* analyze_pdf, lines 296-387, one coroutine per request *)

Requests == DOMAIN batch

Unset == [unset |-> TRUE]
NoExc == [none |-> TRUE]

EmptyFrame ==
    [content |-> "", metadata_orig |-> Unset, metadata_extracted |-> Unset,
     creation_date |-> <<>>, mod_date |-> <<>>, image_analysis |-> <<>>,
     low_level_analysis |-> Unset, analysed_file_name |-> <<>>, result |-> Unset]

\* The handler is an async def: the event loop runs it without interleaving
\* another coroutine until it reaches an await.  Its only await is
\* "await file.read()" at line 306.
\* the font scan handed to a worker thread and awaited
AwaitPointsWithParse == {"read", "parse"}

AwaitPoints == {"read"}

Ended == {"returned", "raised"}

\* r may take a step: it holds the loop, or the loop is free and r is a new
\* request or is suspended at an await
MayRun(r) ==
    \/ running = {r}
    \/ /\ running = {}
       /\ \/ pc[r] \in AwaitPoints
          \/ pc[r] = "for" /\ idx[r] = 1

\* r moves to position p and keeps the loop unless p is an await or the end
Goto(r, p) ==
    /\ pc' = [pc EXCEPT ![r] = p]
    /\ running' = IF p \in AwaitPoints \cup Ended THEN {} ELSE {r}

\* an exception inside the try of lines 305-379: the except clause of line 381
\* raises HTTPException(500) once the finally clause has run
Throw(r, type, step) ==
    /\ exc' = [exc EXCEPT ![r] = [type |-> type, step |-> step]]
    /\ failed' = [failed EXCEPT ![r] = @ \cup {idx[r]}]
    /\ Goto(r, "finally")

CurrentFile(r) == batch[r][idx[r]]

PdfSuffix == <<".", "p", "d", "f">>

AnalyzedPrefix == <<"a", "n", "a", "l", "y", "z", "e", "d", "_">>

\* lines 299-302 and 387: the loop header and the file name test
For(r) ==
    /\ pc[r] = "for" /\ MayRun(r)
    /\ IF idx[r] > Len(batch[r])
       THEN Goto(r, "returned") /\ UNCHANGED failed
       ELSE IF ~EndsWith(CurrentFile(r).filename, PdfSuffix)
       THEN /\ Goto(r, "raised")          \* HTTPException(400), outside the try
            /\ failed' = [failed EXCEPT ![r] = @ \cup {idx[r]}]
       ELSE Goto(r, "read") /\ UNCHANGED failed
    /\ frame' = [frame EXCEPT ![r] = EmptyFrame]
    /\ UNCHANGED <<harness_vars, batch, idx, final_result, exc, temp_pdf, artifacts, handles>>

\* line 306: content = await file.read()
Read(r) ==
    /\ pc[r] = "read" /\ MayRun(r)
    /\ frame' = [frame EXCEPT ![r].content = CurrentFile(r).content]
    /\ Goto(r, "write")
    /\ UNCHANGED <<harness_vars, batch, idx, final_result, exc, failed, temp_pdf,
                   artifacts, handles>>

\* lines 308-309: the bytes go to the fixed path temp.pdf
WriteTemp(r) ==
    /\ pc[r] = "write" /\ MayRun(r)
    /\ temp_pdf' = [exists |-> TRUE, writer |-> <<r, idx[r]>>, bytes |-> frame[r].content]
    /\ Goto(r, "metadata")
    /\ UNCHANGED <<harness_vars, batch, idx, frame, final_result, exc, failed,
                   artifacts, handles>>

\* lines 311-320: fitz reads the metadata from the bytes in memory
Metadata(r) ==
    /\ pc[r] = "metadata" /\ MayRun(r)
    /\ LET content == Decoded(frame[r].content)
           metadata_orig == content.metadata
       IN IF ~content.fitz_ok
          THEN Throw(r, "FileDataError", "metadata") /\ UNCHANGED frame
          ELSE IF metadata_orig = PyNoneDict
          THEN /\ Throw(r, "AttributeError", "metadata")     \* metadata_orig.get, line 316
               /\ frame' = [frame EXCEPT ![r].metadata_orig = metadata_orig,
                                         ![r].metadata_extracted = extract_metadata(metadata_orig)]
          ELSE LET creation_date == format_pdf_date(DictGet(metadata_orig, "creationDate", PyNone))
                   mod_date == format_pdf_date(DictGet(metadata_orig, "modDate", PyNone))
               IN IF creation_date.kind = "raise" \/ mod_date.kind = "raise"
                  THEN /\ Throw(r, "AttributeError", "metadata")
                       /\ frame' = [frame EXCEPT
                                       ![r].metadata_orig = metadata_orig,
                                       ![r].metadata_extracted = extract_metadata(metadata_orig)]
                  ELSE /\ frame' = [frame EXCEPT
                                       ![r].metadata_orig = metadata_orig,
                                       ![r].metadata_extracted = extract_metadata(metadata_orig),
                                       ![r].creation_date = creation_date.value,
                                       ![r].mod_date = mod_date.value]
                       /\ Goto(r, "images")
                       /\ UNCHANGED <<exc, failed>>
    /\ UNCHANGED <<harness_vars, batch, idx, final_result, temp_pdf, artifacts, handles>>

Handle(r, kind) == [owner |-> <<r, idx[r]>>, kind |-> kind]

\* lines 323-339: doc is opened, every image analysed, doc is closed; an
\* image whose xref cannot be extracted raises before doc.close()
Images(r) ==
    /\ pc[r] = "images" /\ MayRun(r)
    /\ LET images == Decoded(frame[r].content).images
       IN IF \E k \in DOMAIN images : ~images[k].extractable
          THEN /\ Throw(r, "ValueError", "images")
               /\ handles' = handles \cup {Handle(r, "doc")}
               /\ UNCHANGED frame
          ELSE /\ frame' = [frame EXCEPT ![r].image_analysis =
                               [k \in DOMAIN images |->
                                   [page |-> images[k].page, image_index |-> images[k].index,
                                    analysis |-> analyze_image(images[k])]]]
               /\ Goto(r, "parse")
               /\ UNCHANGED <<exc, failed, handles>>
    /\ UNCHANGED <<harness_vars, batch, idx, final_result, temp_pdf, artifacts>>

\* what a reader finds at the path temp.pdf
NoPdf == [fitz_ok |-> FALSE, plumber_ok |-> FALSE]

AtTempPath == IF temp_pdf.exists THEN Decoded(temp_pdf.bytes) ELSE NoPdf

\* line 341
Parse(r) ==
    /\ pc[r] = "parse" /\ MayRun(r)
    /\ frame' = [frame EXCEPT ![r].low_level_analysis = parse_pdf_low_level(AtTempPath)]
    /\ Goto(r, "highlight")
    /\ UNCHANGED <<harness_vars, batch, idx, final_result, exc, failed, temp_pdf,
                   artifacts, handles>>

\* fitz.Rect(bbox).is_valid, line 176
RectIsValid(bbox) == bbox[1] <= bbox[3] /\ bbox[2] <= bbox[4]

\* the annotations of lines 173-178, in the order they are added
Highlights(suspicious_regions) ==
    [k \in DOMAIN SelectSeq(suspicious_regions, LAMBDA region : RectIsValid(region.bbox)) |->
        LET region == SelectSeq(suspicious_regions, LAMBDA g : RectIsValid(g.bbox))[k]
        IN [page_num |-> region.page - 1, bbox |-> region.bbox]]

\* doc.save(output_path), line 180: the file at output_path is replaced
Saved(files, file) == {a \in files : a.path # file.path} \cup {file}

\* lines 343-348 and highlight_suspicious_fonts, lines 169-182.  suspicious_regions
\* is low_level_analysis.get('suspicious_regions'): None for an error value,
\* and "for region in None" raises TypeError after doc was opened.
Highlight(r) ==
    /\ pc[r] = "highlight" /\ MayRun(r)
    /\ LET analysed_file_name == AnalyzedPrefix \o CurrentFile(r).filename
           low_level_analysis == frame[r].low_level_analysis
       IN /\ frame' = [frame EXCEPT ![r].analysed_file_name = analysed_file_name]
          /\ IF ~AtTempPath.fitz_ok
             THEN /\ Throw(r, "FileDataError", "highlight")
                  /\ UNCHANGED <<artifacts, handles>>
             ELSE IF "suspicious_regions" \notin DOMAIN low_level_analysis
             THEN /\ Throw(r, "TypeError", "highlight")
                  /\ handles' = handles \cup {Handle(r, "overlay")}
                  /\ UNCHANGED artifacts
             ELSE /\ artifacts' = Saved(artifacts,
                                        [path |-> analysed_file_name,
                                         owner |-> <<r, idx[r]>>,
                                         source |-> temp_pdf.writer,
                                         highlights |->
                                            Highlights(low_level_analysis.suspicious_regions)])
                  /\ Goto(r, "extract")
                  /\ UNCHANGED <<exc, failed, handles>>
    /\ UNCHANGED <<harness_vars, batch, idx, final_result, temp_pdf>>

\* line 350
Extract(r) ==
    /\ pc[r] = "extract" /\ MayRun(r)
    /\ frame' = [frame EXCEPT ![r].result = extract_bank_statement(AtTempPath)]
    /\ Goto(r, "aggregate")
    /\ UNCHANGED <<harness_vars, batch, idx, final_result, exc, failed, temp_pdf,
                   artifacts, handles>>

AnyImageFlagged(image_analysis) ==
    \E k \in DOMAIN image_analysis :
        DictGet(image_analysis[k].analysis, "possible_manipulation", FALSE)

\* lines 352-363.  sorted(a) != sorted(b) on lists without repetitions is
\* inequality of their sets of elements; the key read at line 361 is "fontes_used".
possible_edits(metadata_extracted, image_analysis, low_level_analysis) ==
    LET edited_by_dates == metadata_extracted.analysis_editions.edited_by_dates
        edited_by_software == metadata_extracted.analysis_editions.edited_by_software
    IN [edited_by_dates |-> edited_by_dates,
        edited_by_software |-> edited_by_software,
        image_analysis_summary |-> AnyImageFlagged(image_analysis),
        low_level_analysis_summary |-> DictGet(low_level_analysis, "suspicious_objects", FALSE),
        summary |-> IF \/ edited_by_dates
                       \/ edited_by_software
                       \/ AnyImageFlagged(image_analysis)
                       \/ ListToSet(DEFAULT_FONTS_BANK_OF_AMERICAN)
                             # DictGet(low_level_analysis, "fontes_used", {})
                    THEN "Possible edit detected"
                    ELSE "No obvious edits detected."]

\* lines 352-379: the verdict, and the record appended to final_result
Aggregate(r) ==
    /\ pc[r] = "aggregate" /\ MayRun(r)
    /\ LET f == frame[r]
           metadata_orig == f.metadata_orig
       IN IF IsError(f.metadata_extracted)
          THEN /\ Throw(r, "KeyError", "aggregate")   \* metadata_extracted["analysis_editions"]
               /\ UNCHANGED final_result
          ELSE /\ final_result' = [final_result EXCEPT ![r] = Append(@,
                    [metadata |-> [file_name |-> CurrentFile(r).filename,
                                   analysed_file_name |-> f.analysed_file_name,
                                   creation_date |-> f.creation_date,
                                   modification_date |-> f.mod_date,
                                   producer |-> DictGet(metadata_orig, "producer", PyNone),
                                   creator |-> DictGet(metadata_orig, "creator", PyNone),
                                   author |-> DictGet(metadata_orig, "author", PyNone)],
                     low_level_analysis |-> f.low_level_analysis,
                     analysis_editions |-> possible_edits(f.metadata_extracted, f.image_analysis,
                                                          f.low_level_analysis),
                     bank_result |-> f.result,
                     image_analysis |-> f.image_analysis])]
               /\ Goto(r, "finally")
               /\ UNCHANGED <<exc, failed>>
    /\ UNCHANGED <<harness_vars, batch, idx, frame, temp_pdf, artifacts, handles>>

\* lines 381-385: temp.pdf is removed if it exists; then the pending
\* exception leaves the handler as HTTPException(500), or the loop goes on
Finally(r) ==
    /\ pc[r] = "finally" /\ MayRun(r)
    /\ temp_pdf' = NoFile
    /\ IF exc[r] # NoExc
       THEN Goto(r, "raised") /\ UNCHANGED idx
       ELSE Goto(r, "for") /\ idx' = [idx EXCEPT ![r] = @ + 1]
    /\ UNCHANGED <<harness_vars, batch, frame, final_result, exc, failed, artifacts, handles>>

\* what the client of request r receives: the list of line 387, or no record
\* at all when the handler ended with an HTTPException
Response(r) == IF pc[r] = "returned" THEN final_result[r] ELSE <<>>

-----------------------------------------------------------------------------
(* Spec: requests to /analyze-pdf *)

MaxBatch == 2

NameA == <<"a", ".", "p", "d", "f">>
NameB == <<"b", ".", "p", "d", "f">>
NameTxt == <<"n", "o", "t", "e", "s", ".", "t", "x", "t">>

Upload(filename, content) == [filename |-> filename, content |-> content]

Uploads ==
    {Upload(NameA, c) : c \in Contents} \cup {Upload(NameB, "Clean"), Upload(NameTxt, "Clean")}

\* the uploads of the requests that are in flight together
SharedUploads == {Upload(NameA, "ForeignFont"), Upload(NameB, "PlumberFails")}

Batches(S) == UNION {[1..n -> S] : n \in 1..MaxBatch}

Fresh(b) ==
    /\ batch = b
    /\ pc = [r \in DOMAIN b |-> "for"]
    /\ idx = [r \in DOMAIN b |-> 1]
    /\ running = {}
    /\ frame = [r \in DOMAIN b |-> EmptyFrame]
    /\ final_result = [r \in DOMAIN b |-> <<>>]
    /\ exc = [r \in DOMAIN b |-> NoExc]
    /\ failed = [r \in DOMAIN b |-> {}]
    /\ temp_pdf = NoFile
    /\ artifacts = {}
    /\ handles = {}

HarnessIdle == call = [fn |-> "analyze_pdf", arg |-> <<>>] /\ ret = Pending

\* one request with any batch
Init == HarnessIdle /\ \E b \in Batches(Uploads) : Fresh(<<b>>)

\* two requests in flight on the same event loop
InitShared == HarnessIdle /\ \E b1, b2 \in Batches(SharedUploads) : Fresh(<<b1, b2>>)

Next ==
    \/ \E r \in Requests : For(r)
    \/ \E r \in Requests : Read(r)
    \/ \E r \in Requests : WriteTemp(r)
    \/ \E r \in Requests : Metadata(r)
    \/ \E r \in Requests : Images(r)
    \/ \E r \in Requests : Parse(r)
    \/ \E r \in Requests : Highlight(r)
    \/ \E r \in Requests : Extract(r)
    \/ \E r \in Requests : Aggregate(r)
    \/ \E r \in Requests : Finally(r)

Spec == Init /\ [][Next]_vars

SpecShared == InitShared /\ [][Next]_vars

-----------------------------------------------------------------------------
(* Properties of analyze_pdf *)

Whitelist == {DEFAULT_FONTS_BANK_OF_AMERICAN[i] : i \in DOMAIN DEFAULT_FONTS_BANK_OF_AMERICAN}

\* the four signals of a record, as the detectors report them
SignalsOf(rec) ==
    << rec.analysis_editions.edited_by_dates,
       rec.analysis_editions.edited_by_software,
       \E k \in DOMAIN rec.image_analysis :
           /\ "possible_manipulation" \in DOMAIN rec.image_analysis[k].analysis
           /\ rec.image_analysis[k].analysis.possible_manipulation,
       \/ "fonts_used" \notin DOMAIN rec.low_level_analysis
       \/ rec.low_level_analysis.fonts_used # Whitelist >>

TrueSignals(rec) == Cardinality({k \in 1..4 : SignalsOf(rec)[k]})

\* C1: with the two metadata flags false, no image flagged and the fonts the
\* scanner reports equal to the whitelist, the summary is "No obvious edits
\* detected."; with exactly one of the four signals true it is "Possible edit
\* detected".
C1_VerdictFollowsSignals ==
    \A r \in Requests : \A k \in DOMAIN final_result[r] :
        LET rec == final_result[r][k]
        IN /\ (TrueSignals(rec) = 0 => rec.analysis_editions.summary = "No obvious edits detected.")
           /\ (TrueSignals(rec) = 1 => rec.analysis_editions.summary = "Possible edit detected")

\* C2: a failure while handling one file of a batch affects that file only:
\* when the request has ended, the client holds one record for every file of
\* the batch whose own handling did not fail.
C2_FailureStaysLocal ==
    \A r \in Requests :
        pc[r] \in Ended => Len(Response(r)) = Cardinality(DOMAIN batch[r] \ failed[r])

SubDetectorError(f) ==
    \/ IsError(f.metadata_extracted)
    \/ IsError(f.low_level_analysis)
    \/ \E k \in DOMAIN f.image_analysis : IsError(f.image_analysis[k].analysis)

\* C3: when a sub-detector of a document returned an error value, the
\* iteration still ends without an exception and with the document's record
\* appended.
C3_ErrorValueIsAbsentSignal ==
    \A r \in Requests :
        (pc[r] = "finally" /\ SubDetectorError(frame[r]))
            => (exc[r] = NoExc /\ Len(final_result[r]) = idx[r])

\* C4: between two iterations and at the end of the request, nothing the
\* request acquired for a document is still held: temp.pdf is gone and every
\* document handle it opened is closed.
C4_ScratchReleased ==
    \A r \in Requests :
        pc[r] \in {"for", "read"} \cup Ended =>
            /\ \A h \in handles : h.owner[1] # r
            /\ ~(temp_pdf.exists /\ temp_pdf.writer[1] = r)

\* C9: a request that returns normally returns one record per file, the i-th
\* for the i-th file, and every file of the batch has its own overlay file.
C9_RecordAndOverlayPerFile ==
    \A r \in Requests :
        pc[r] = "returned" =>
            /\ Len(final_result[r]) = Len(batch[r])
            /\ \A i \in DOMAIN batch[r] :
                  /\ final_result[r][i].metadata.file_name = batch[r][i].filename
                  /\ final_result[r][i].low_level_analysis
                        = parse_pdf_low_level(Decoded(batch[r][i].content))
                  /\ \E a \in artifacts : a.owner = <<r, i>>

\* the positions between the write of temp.pdf (line 309) and its removal (line 385)
HoldsTempPdf == {"metadata", "images", "parse", "highlight", "extract", "aggregate", "finally"}

\* C10: with several requests in flight, from a request's write of temp.pdf
\* for a document to its removal the file is the one that request wrote, with
\* the bytes uploaded for that document, and every overlay was made from the
\* bytes of its own document.
C10_TempPdfNotShared ==
    /\ \A r \in Requests :
          pc[r] \in HoldsTempPdf =>
              /\ temp_pdf.exists
              /\ temp_pdf.writer = <<r, idx[r]>>
              /\ temp_pdf.bytes = batch[r][idx[r]].content
    /\ \A a \in artifacts : a.source = a.owner

\* C10 witness: two requests in flight; the second has finished its first
\* file and waits at the await for its second, the first is past the font
\* scan of its own second file and about to write its overlay.
C10_Witness ==
    /\ Requests = {1, 2}
    /\ pc[1] = "highlight" /\ idx[1] = 2
    /\ pc[2] = "read" /\ idx[2] = 2 /\ Len(final_result[2]) = 1
    /\ temp_pdf.exists /\ temp_pdf.writer = <<1, 2>>

====
